---- MODULE Spec2Model ----
(***************************************************************************)
(* BigCrawl: the crawl frontier (URLManager.py), the near-duplicate index  *)
(* (SimhashManager.py) and the worker-pool orchestration (crawler.py),     *)
(* as one state machine.  Every action is one stretch of code that the     *)
(* asyncio event loop (or a thread-pool thread) runs between two           *)
(* suspension points.                                                      *)
(***************************************************************************)
EXTENDS Integers, Sequences, FiniteSets, TLC

(***************************************************************************)
(* Bounds of the model and constants of the program.                       *)
(***************************************************************************)
\* crawler.py:27 NUM_WORKERS = 350, scaled to the smallest pool that is concurrent.
NUM_WORKERS == 2
\* crawler.py:28 TARGET_PAGES = 20000, scaled so that the soft limit is reached.
TARGET_PAGES == 2
\* URLManager.py:35
domain_scrape_limit == 100000
\* SimhashManager.py:14, k: the largest Hamming distance of a near-duplicate.
SimhashK == 3
\* SimhashManager.py:14, f: the width of a fingerprint in bits.
SimhashF == 64
\* The most links extract_links returns for one page.
MaxLinks == 1
\* The number of times the process is started (the first start included).
MaxRuns == 2

None == "None"
\* robots_lock when no task holds it.
NoTask == -1
\* hashes[id] when id has no entry.
NoHash == -1
\* A file that does not exist.
NoStateFile == [exists |-> FALSE, queued |-> {}, visited |-> {}, being_crawled |-> {}]
NoFailedFile == [exists |-> FALSE, urls |-> {}]
NoSimhashFile == [exists |-> FALSE, data |-> <<>>]
Absent == "Absent"
Rules == "Rules"

\* Well-formed URLs of the modelled web, and one malformed href that
\* extract_links passes on (it starts with "http") and urlparse rejects.
Urls == {"a1", "a2", "b1"}
BadUrl == "http://["
Domains == {"a", "b"}
\* The paths a domain's robots.txt disallows when it is served.
Disallowed == {"b1"}
\* The URLs the server answers with status 404 and an HTML error page
\* (crawl_worker reads resp.headers and resp.text(), never resp.status).
NotFound == {"a2"}
\* The page texts fetches return.
Texts == {"t0", "t1", "t2", "t3"}
\* crawler.py main, lines 181-234: the seed list (scaled to two seeds).
Seeds == <<"a1", "a2">>

Main == 0
Workers == 1..NUM_WORKERS
Procs == {Main} \cup Workers

VARIABLES
    url_manager,        \* the URLManager object (a record of its fields)
    robots_files,       \* domains with a cached robots file under ROBOTS_FOLDER
    hashes,             \* SimhashManager.hashes: page id -> fingerprint (None: no entry)
    index,              \* SimhashManager.index: the stored <<fingerprint, page id>> pairs
    save_queue,         \* crawler.save_queue
    url_map,            \* crawler.url_map (kept equal to URL_MAP_FILE by disk_writer)
    writer_pc,          \* disk_writer: "idle", "run", "done"
    pages_crawled,      \* crawler.pages_crawled
    soft_limit_reached, \* crawler.soft_limit_reached
    task,               \* main (0) and the crawl workers: position and locals
    pending_ret,        \* what has_pending_urls() returned to main
    state_file,         \* URLManager.STATE_FILE on disk (None: no file)
    failed_file,        \* URLManager.FAILED_FILE on disk (None: no file)
    simhash_file,       \* SimhashManager.state_file on disk (None: no file)
    saved_from,         \* the four sets of the URLManager at its last save_state call
    pages_enqueued,     \* number of save_queue.put((filename, html, url)) calls of this run
    run,                \* number of process starts so far
    web                 \* the page texts the crawled web serves (fixed in a behaviour)

vars == <<url_manager, robots_files, hashes, index, save_queue, url_map, writer_pc,
          pages_crawled, soft_limit_reached, task, pending_ret, state_file,
          failed_file, simhash_file, saved_from, pages_enqueued, run, web>>

(***************************************************************************)
(* Helpers.                                                                *)
(***************************************************************************)
\* URLManager._get_domain: urlparse(url).netloc (raises ValueError on BadUrl).
_get_domain(url) == IF url \in {"a1", "a2"} THEN "a" ELSE "b"

\* All orders of a finite set (list(set) iterates in an arbitrary order).
Orders(S) ==
    { s \in [1..Cardinality(S) -> S] : \A i, j \in DOMAIN s : i # j => s[i] # s[j] }

\* All rearrangements of a sequence (random.shuffle); the sequence itself is one.
Shuffles(q) ==
    { [i \in DOMAIN q |-> q[f[i]]] : f \in Orders(DOMAIN q) }

SeqToSet(q) == { q[i] : i \in DOMAIN q }

Count(q, x) == Cardinality({ i \in DOMAIN q : q[i] = x })

(***************************************************************************)
(* SimhashManager.                                                         *)
(***************************************************************************)
\* compute_hash: Simhash(text, f).value, for the texts of the modelled web.
\* t1 is k bits from t0; t2 is k + 1 bits from t0; t0, t2 and t3 are pairwise
\* more than k bits apart, and so are t1, t2 and t3.
compute_hash(text) ==
    CASE text = "t0" -> 0
      [] text = "t1" -> 7
      [] text = "t2" -> 240
      [] text = "t3" -> 3855

RECURSIVE BitCount(_, _)
BitCount(x, bits) ==
    IF bits = 0 \/ x = 0 THEN 0 ELSE (x % 2) + BitCount(x \div 2, bits - 1)

RECURSIVE XorBits(_, _, _)
XorBits(x, y, bits) ==
    IF bits = 0 \/ (x = 0 /\ y = 0) THEN 0
    ELSE ((x + y) % 2) + 2 * XorBits(x \div 2, y \div 2, bits - 1)

\* Simhash.distance: the number of differing bits.
distance(x, y) == BitCount(XorBits(x, y, SimhashF), SimhashF)

\* A variant of get_near_dups that misses the fingerprints exactly k bits away.
get_near_dups_below_k(idx, h) == { e[2] : e \in { p \in idx : distance(p[1], h) < SimhashK } }

\* SimhashIndex.get_near_dups: the ids of the stored fingerprints within k bits.
get_near_dups(idx, h) == { e[2] : e \in { p \in idx : distance(p[1], h) <= SimhashK } }

\* add_page, lines 40-41: store the fingerprint h under id.
StorePage(hs, idx, id, h) ==
    [hashes |-> [hs EXCEPT ![id] = h], index |-> idx \cup {<<h, id>>}]

\* add_page, run without interruption: the returned value and the new store.
add_page(hs, idx, id, text) ==
    LET h == compute_hash(text) IN
    IF get_near_dups(idx, h) # {}
    THEN [ret |-> FALSE, hashes |-> hs, index |-> idx]
    ELSE [ret |-> TRUE, hashes |-> StorePage(hs, idx, id, h).hashes,
          index |-> StorePage(hs, idx, id, h).index]

(***************************************************************************)
(* URLManager: the synchronous pieces, as functions of the object.         *)
(***************************************************************************)
\* URLManager.__init__ (main constructs it with the defaults: robots enabled).
disable_robots == FALSE

NewURLManager ==
    [ queued |-> {}, visited |-> {}, being_crawled |-> {}, failed_urls |-> {},
      robots_txt |-> [d \in Domains |-> Absent],
      robots_lock |-> NoTask, robots_waiters |-> <<>>,
      global_queue |-> <<>>,
      domain_scrape_tracker |-> [d \in Domains |-> 0] ]

\* A variant of mark_visited that only moves a URL that is in flight.
mark_visited_in_flight(um, url) ==
    [um EXCEPT !.visited = @ \cup ({url} \cap um.being_crawled),
               !.being_crawled = @ \ {url}]

\* mark_visited (task_done only counts and its ValueError is swallowed).
mark_visited(um, url) ==
    [um EXCEPT !.visited = @ \cup {url}, !.being_crawled = @ \ {url}]

\* A variant of mark_failed that leaves the URL in being_crawled.
mark_failed_in_flight(um, url) == [um EXCEPT !.failed_urls = @ \cup {url}]

\* mark_failed
mark_failed(um, url) ==
    [um EXCEPT !.failed_urls = @ \cup {url}, !.being_crawled = @ \ {url}]

\* A variant of has_pending_urls that reads being_crawled instead of queued.
has_pending_in_flight(um) == um.global_queue # <<>> \/ um.being_crawled # {}

\* has_pending_urls
has_pending_urls(um) == um.global_queue # <<>> \/ um.queued # {}

\* add_url, line 109: the URL is already known.
AlreadyKnown(um, url) ==
    \/ url \in um.visited
    \/ url \in um.being_crawled
    \/ url \in um.failed_urls
    \/ url \in um.queued

\* add_url, lines 121-124: count the submission and enqueue (the queue is
\* unbounded, so put_nowait does not raise).
Enqueue(um, url) ==
    [um EXCEPT !.domain_scrape_tracker[_get_domain(url)] = @ + 1,
               !.global_queue = Append(@, url),
               !.queued = @ \cup {url}]

\* is_allowed, lines 95-98: the answer of the cached entry.
can_fetch(um, url) ==
    LET rp == um.robots_txt[_get_domain(url)] IN
    IF rp = None THEN TRUE ELSE url \notin Disallowed

\* A variant of add_url that counts the submission before it asks is_allowed.
AfterIsAllowedCounted(um, url) ==
    IF ~can_fetch(um, url) /\ ~disable_robots
    THEN [um EXCEPT !.domain_scrape_tracker[_get_domain(url)] = @ + 1]
    ELSE Enqueue(um, url)

\* add_url from line 117 on, once is_allowed has its answer.
AfterIsAllowed(um, url) ==
    IF ~can_fetch(um, url) /\ ~disable_robots THEN um ELSE Enqueue(um, url)

\* A variant of _fetch_robots without the test of the cache under the lock.
FetchRobotsUnchecked(um, p, url) ==
    LET d == _get_domain(url) IN
    IF d \in robots_files
    THEN [um |-> AfterIsAllowed([um EXCEPT !.robots_txt[d] = Rules,
                                           !.robots_lock = NoTask], url),
          st |-> "done"]
    ELSE [um |-> [um EXCEPT !.robots_lock = p], st |-> "robots_fetch"]

\* _fetch_robots, lines 49-63, run by a task that holds robots_lock: the cached
\* entry, the robots file on disk, or the network request (a suspension).
FetchRobotsLocked(um, p, url) ==
    LET d == _get_domain(url) IN
    IF um.robots_txt[d] # Absent
    THEN [um |-> AfterIsAllowed([um EXCEPT !.robots_lock = NoTask], url), st |-> "done"]
    ELSE IF d \in robots_files
    THEN [um |-> AfterIsAllowed([um EXCEPT !.robots_txt[d] = Rules,
                                           !.robots_lock = NoTask], url),
          st |-> "done"]
    ELSE [um |-> [um EXCEPT !.robots_lock = p], st |-> "robots_fetch"]

\* add_url up to its first suspension.  st: "done" (returned), "raise",
\* "robots_wait" (queued on robots_lock), "robots_fetch" (request in flight).
\* lucky: random.random() < 0.05.
add_url(um, p, url, lucky) ==
    IF url = BadUrl THEN [um |-> um, st |-> "raise"]
    ELSE IF AlreadyKnown(um, url) THEN [um |-> um, st |-> "done"]
    ELSE IF um.domain_scrape_tracker[_get_domain(url)] >= domain_scrape_limit /\ ~lucky
    THEN [um |-> um, st |-> "done"]
    ELSE IF disable_robots THEN [um |-> Enqueue(um, url), st |-> "done"]
    ELSE IF um.robots_txt[_get_domain(url)] # Absent
    THEN [um |-> AfterIsAllowed(um, url), st |-> "done"]
    ELSE IF um.robots_lock # NoTask \/ um.robots_waiters # <<>>
    THEN [um |-> [um EXCEPT !.robots_waiters = Append(@, p)], st |-> "robots_wait"]
    ELSE FetchRobotsLocked(um, p, url)

\* A run of add_url calls (main's seed loop, a worker's link loop) up to the
\* first call that suspends or raises; todo keeps that call's URL at its head.
RECURSIVE AddUrls(_, _, _, _)
AddUrls(um, p, todo, lucky) ==
    IF todo = <<>> THEN [um |-> um, st |-> "done", todo |-> todo]
    ELSE LET r == add_url(um, p, Head(todo), lucky) IN
         IF r.st = "done" THEN AddUrls(r.um, p, Tail(todo), lucky)
         ELSE [um |-> r.um, st |-> r.st, todo |-> todo]

\* A variant of save_state that writes the in-flight URLs as visited.
SavedStateInFlightAsVisited(um) ==
    [exists |-> TRUE, queued |-> um.queued,
     visited |-> um.visited \cup um.being_crawled, being_crawled |-> {}]

\* save_state: the two files it writes.
SavedFailed(um) == [exists |-> TRUE, urls |-> um.failed_urls]

\* SimhashManager.save_state
SavedHashes(h) == [exists |-> TRUE, data |-> h]

SavedState(um) ==
    [exists |-> TRUE, queued |-> um.queued, visited |-> um.visited, being_crawled |-> um.being_crawled]

\* The sets save_state reads.
FrontierSets(um) ==
    [queued |-> um.queued, visited |-> um.visited,
     being_crawled |-> um.being_crawled, failed_urls |-> um.failed_urls]

\* url_manager.save_state() and simhash_manager.save_state(), which every
\* checkpoint calls together.
SaveState(um) ==
    /\ state_file' = SavedState(um)
    /\ failed_file' = SavedFailed(um)
    /\ simhash_file' = SavedHashes(hashes)
    /\ saved_from' = FrontierSets(um)

\* A variant of load_state that puts the failed URLs back into the queue.
load_state_requeue(um, order) ==
    LET f == IF failed_file.exists THEN failed_file.urls ELSE {}
        more == CHOOSE s \in Orders(f \ state_file.queued) : TRUE
    IN [um EXCEPT !.queued = state_file.queued \cup f,
                  !.visited = state_file.visited \ f,
                  !.being_crawled = state_file.being_crawled,
                  !.global_queue = um.global_queue \o order \o more]

\* load_state into a fresh object; order: the order list(self.queued) iterates in.
\* (um is fresh, so its own queued set is empty when there is no file.)
load_state(um, order) ==
    LET q == IF state_file.exists THEN state_file.queued ELSE um.queued
        v == IF state_file.exists THEN state_file.visited ELSE um.visited
        b == IF state_file.exists THEN state_file.being_crawled ELSE um.being_crawled
        f == IF failed_file.exists THEN failed_file.urls ELSE {}
    IN [um EXCEPT !.queued = q, !.visited = v \cup f, !.being_crawled = b,
                  !.global_queue = um.global_queue \o order]

\* get_url from line 146 on: take the head of the queue, or wait for one.
TakeUrl(um, q) ==
    IF q = <<>>
    THEN [um |-> um, pc |-> "get", url |-> None]
    ELSE [um |-> [um EXCEPT !.global_queue = Tail(q),
                            !.queued = @ \ {Head(q)},
                            !.being_crawled = @ \cup {Head(q)}],
          pc |-> "fetch", url |-> Head(q)]

\* get_url: the occasional shuffle of the queue (lines 139-145), then the take.
get_url(um) == { TakeUrl(um, q) : q \in Shuffles(um.global_queue) }

\* crawl_worker, lines 86-93: the top of the loop, up to the next suspension.
WorkerLoop(um, limit) ==
    IF limit THEN { [um |-> um, pc |-> "done", url |-> None] } ELSE get_url(um)

(***************************************************************************)
(* The tasks.  pc of main: "load", "loaded", "checked", "robots_wait",     *)
(* "robots_fetch", "gather", "await_writer", "finished".  pc of a worker:  *)
(* "idle" (not created), "start", "get", "fetch", "add_page",              *)
(* "add_page_store", "accepted", "extract_links", "robots_wait",           *)
(* "robots_fetch", "done".                                                 *)
(***************************************************************************)
Local(pc, url, text, todo, ctx) ==
    [pc |-> pc, url |-> url, text |-> text, todo |-> todo, ctx |-> ctx]

\* random.random() < 0.05 is only drawn once a domain has reached its limit.
Lucky ==
    IF \E d \in Domains : url_manager.domain_scrape_tracker[d] >= domain_scrape_limit
    THEN BOOLEAN ELSE {FALSE}

\* The link lists extract_links can return: distinct hrefs, in any order.
LinkLists ==
    UNION { Orders(S) : S \in { T \in SUBSET (Urls \cup {BadUrl}) : Cardinality(T) <= MaxLinks } }

InitWith(texts) ==
    /\ web = texts
    /\ url_manager = NewURLManager
    /\ robots_files = {}
    /\ hashes = [u \in Urls |-> NoHash]
    /\ index = {}
    /\ save_queue = <<>>
    /\ url_map = {}
    /\ writer_pc = "idle"
    /\ pages_crawled = 0
    /\ soft_limit_reached = FALSE
    /\ task = [p \in Procs |-> Local(IF p = Main THEN "load" ELSE "idle", None, None, <<>>, None)]
    /\ pending_ret = FALSE
    /\ state_file = NoStateFile
    /\ failed_file = NoFailedFile
    /\ simhash_file = NoSimhashFile
    /\ saved_from = FrontierSets(NewURLManager)
    /\ pages_enqueued = 0
    /\ run = 1

\* The process is started for the first time, on a web that serves every text.
Init == InitWith(Texts)

\* A worker is back at the top of its loop with the frontier um.
BackToTop(w, um) ==
    /\ \E r \in WorkerLoop(um, soft_limit_reached) :
          /\ url_manager' = r.um
          /\ task' = [task EXCEPT ![w] = Local(r.pc, r.url, None, <<>>, None)]
    /\ UNCHANGED <<pages_crawled, soft_limit_reached, state_file, failed_file,
                   simhash_file, saved_from, writer_pc>>

\* A variant of the test of the soft limit that fires one page late.
LimitReachedLate(n) == n > TARGET_PAGES

\* crawl_worker, line 131: the test of the soft limit.
LimitReached(n) == n >= TARGET_PAGES

\* crawl_worker, lines 131-137: count the page; at the target set the flag,
\* checkpoint and leave the loop.
CountPage(w, um) ==
    /\ pages_crawled' = pages_crawled + 1
    /\ IF LimitReached(pages_crawled + 1)
       THEN /\ soft_limit_reached' = TRUE
            /\ url_manager' = um
            /\ SaveState(um)
            /\ task' = [task EXCEPT ![w] = Local("done", None, None, <<>>, None)]
       ELSE /\ \E r \in WorkerLoop(um, soft_limit_reached) :
                  /\ url_manager' = r.um
                  /\ task' = [task EXCEPT ![w] = Local(r.pc, r.url, None, <<>>, None)]
            /\ UNCHANGED <<soft_limit_reached, state_file, failed_file, simhash_file, saved_from>>
    /\ UNCHANGED writer_pc

\* main, lines 239-244: create the workers, the writer and the periodic
\* checkpoint task, and wait for the workers.
Spawn(um) ==
    /\ url_manager' = um
    /\ task' = [p \in Procs |->
                  IF p = Main THEN Local("gather", None, None, <<>>, None)
                  ELSE Local("start", None, None, <<>>, None)]
    /\ writer_pc' = "run"
    /\ UNCHANGED <<pages_crawled, soft_limit_reached, state_file, failed_file,
                   simhash_file, saved_from>>

\* What follows a run r of add_url calls made by task p for url in context ctx
\* ("seeds": main's seed loop; "canonical": line 108; "links": line 128).
Continue(p, ctx, url, r) ==
    CASE r.st \in {"robots_wait", "robots_fetch"} ->
            /\ url_manager' = r.um
            /\ task' = [task EXCEPT ![p] = Local(r.st, url, None, r.todo, ctx)]
            /\ UNCHANGED <<pages_crawled, soft_limit_reached, state_file, failed_file,
                           simhash_file, saved_from, writer_pc>>
      [] r.st = "raise" -> BackToTop(p, mark_failed(r.um, url))
      [] r.st = "done" /\ ctx = "canonical" -> BackToTop(p, mark_visited(r.um, url))
      [] r.st = "done" /\ ctx = "links" -> CountPage(p, r.um)
      [] r.st = "done" /\ ctx = "seeds" -> Spawn(r.um)

(***************************************************************************)
(* main                                                                    *)
(***************************************************************************)
\* SimhashManager.load_state
LoadedHashes == IF simhash_file.exists THEN simhash_file.data ELSE [u \in Urls |-> NoHash]

IndexOf(h) == { <<h[u], u>> : u \in { x \in Urls : h[x] # NoHash } }

\* main, lines 171-177: construct the managers and load their state.
MainLoad ==
    /\ task[Main].pc = "load"
    /\ \E order \in Orders(state_file.queued) :
          url_manager' = load_state(NewURLManager, order)
    /\ hashes' = LoadedHashes
    /\ index' = IndexOf(LoadedHashes)
    /\ task' = [task EXCEPT ![Main].pc = "loaded"]
    /\ UNCHANGED <<robots_files, save_queue, url_map, writer_pc, pages_crawled,
                   soft_limit_reached, pending_ret, state_file, failed_file,
                   simhash_file, saved_from, pages_enqueued, run, web>>

\* main, line 180: the call of has_pending_urls.
MainCheckPending ==
    /\ task[Main].pc = "loaded"
    /\ pending_ret' = has_pending_urls(url_manager)
    /\ task' = [task EXCEPT ![Main].pc = "checked"]
    /\ UNCHANGED <<url_manager, robots_files, hashes, index, save_queue, url_map,
                   writer_pc, pages_crawled, soft_limit_reached, state_file,
                   failed_file, simhash_file, saved_from, pages_enqueued, run, web>>

\* main, lines 180-244: seed the frontier if nothing is pending, then spawn.
MainSeed ==
    /\ task[Main].pc = "checked"
    /\ \E lucky \in Lucky :
          Continue(Main, "seeds", None,
                   AddUrls(url_manager, Main, IF pending_ret THEN <<>> ELSE Seeds, lucky))
    /\ UNCHANGED <<robots_files, hashes, index, save_queue, url_map, pending_ret,
                   pages_enqueued, run, web>>

\* main, lines 244-247: every worker has returned; send the writer its sentinel.
MainGathered ==
    /\ task[Main].pc = "gather"
    /\ \A w \in Workers : task[w].pc = "done"
    /\ save_queue' = Append(save_queue, None)
    /\ task' = [task EXCEPT ![Main].pc = "await_writer"]
    /\ UNCHANGED <<url_manager, robots_files, hashes, index, url_map, writer_pc,
                   pages_crawled, soft_limit_reached, pending_ret, state_file,
                   failed_file, simhash_file, saved_from, pages_enqueued, run, web>>

\* A variant of main that does not wait for the writer before it goes on.
WriterNotAwaited == TRUE

\* main, line 248: await save_task returns once disk_writer has returned.
WriterJoined == writer_pc = "done"

\* main, lines 248-259: the writer is done; cancel the periodic task and write
\* the final checkpoint.
MainFinal ==
    /\ task[Main].pc = "await_writer"
    /\ WriterJoined
    /\ SaveState(url_manager)
    /\ task' = [task EXCEPT ![Main].pc = "finished"]
    /\ UNCHANGED <<url_manager, robots_files, hashes, index, save_queue, url_map,
                   writer_pc, pages_crawled, soft_limit_reached, pending_ret,
                   pages_enqueued, run, web>>

\* periodic_simhash_save: alive from its creation to its cancellation.
PeriodicSave ==
    /\ task[Main].pc \in {"gather", "await_writer"}
    /\ SaveState(url_manager)
    /\ UNCHANGED <<url_manager, robots_files, hashes, index, save_queue, url_map,
                   writer_pc, pages_crawled, soft_limit_reached, task, pending_ret,
                   pages_enqueued, run, web>>

\* disk_writer: one turn of its loop.
DiskWriter ==
    /\ writer_pc = "run"
    /\ save_queue # <<>>
    /\ save_queue' = Tail(save_queue)
    /\ IF Head(save_queue) = None
       THEN writer_pc' = "done" /\ UNCHANGED url_map
       ELSE url_map' = url_map \cup {Head(save_queue)} /\ UNCHANGED writer_pc
    /\ UNCHANGED <<url_manager, robots_files, hashes, index, pages_crawled,
                   soft_limit_reached, task, pending_ret, state_file, failed_file,
                   simhash_file, saved_from, pages_enqueued, run, web>>

(***************************************************************************)
(* The robots lock and request, for main and the workers alike.            *)
(***************************************************************************)
\* _fetch_robots, line 48: the first waiter gets the released lock.
RobotsAcquire(p) ==
    /\ task[p].pc = "robots_wait"
    /\ url_manager.robots_lock = NoTask
    /\ url_manager.robots_waiters # <<>>
    /\ Head(url_manager.robots_waiters) = p
    /\ \E lucky \in Lucky :
          LET um1 == [url_manager EXCEPT !.robots_waiters = Tail(@)]
              r0 == FetchRobotsLocked(um1, p, Head(task[p].todo))
              r == IF r0.st = "done"
                   THEN AddUrls(r0.um, p, Tail(task[p].todo), lucky)
                   ELSE [um |-> r0.um, st |-> r0.st, todo |-> task[p].todo]
          IN Continue(p, task[p].ctx, task[p].url, r)
    /\ UNCHANGED <<robots_files, hashes, index, save_queue, url_map, pending_ret,
                   pages_enqueued, run, web>>

\* _fetch_robots, lines 65-87: the request ends (ok: status 200 and a body);
\* the entry is cached, the lock released, and add_url goes on.
RobotsFetched(p) ==
    /\ task[p].pc = "robots_fetch"
    /\ \E ok \in BOOLEAN, lucky \in Lucky :
          LET u == Head(task[p].todo)
              d == _get_domain(u)
              um1 == [url_manager EXCEPT !.robots_txt[d] = IF ok THEN Rules ELSE None,
                                         !.robots_lock = NoTask]
              r == AddUrls(AfterIsAllowed(um1, u), p, Tail(task[p].todo), lucky)
          IN /\ robots_files' = IF ok THEN robots_files \cup {d} ELSE robots_files
             /\ Continue(p, task[p].ctx, task[p].url, r)
    /\ UNCHANGED <<hashes, index, save_queue, url_map, pending_ret, pages_enqueued, run, web>>

(***************************************************************************)
(* crawl_worker                                                            *)
(***************************************************************************)
\* The worker task starts: its first pass through the top of the loop.
WorkerStart(w) ==
    /\ task[w].pc = "start"
    /\ BackToTop(w, url_manager)
    /\ UNCHANGED <<robots_files, hashes, index, save_queue, url_map, pending_ret,
                   pages_enqueued, run, web>>

\* get_url, line 147: a worker waiting on the empty queue is handed a URL.
WorkerWake(w) ==
    /\ task[w].pc = "get"
    /\ url_manager.global_queue # <<>>
    /\ LET r == TakeUrl(url_manager, url_manager.global_queue) IN
          /\ url_manager' = r.um
          /\ task' = [task EXCEPT ![w] = Local(r.pc, r.url, None, <<>>, None)]
    /\ UNCHANGED <<robots_files, hashes, index, save_queue, url_map, writer_pc,
                   pages_crawled, soft_limit_reached, pending_ret, state_file,
                   failed_file, simhash_file, saved_from, pages_enqueued, run, web>>

\* Lines 97-100 and 139-141: the fetch raises, or the response is not HTML.
FetchFailed(w) ==
    /\ task[w].pc = "fetch"
    /\ BackToTop(w, mark_failed(url_manager, task[w].url))
    /\ UNCHANGED <<robots_files, hashes, index, save_queue, url_map, pending_ret,
                   pages_enqueued, run, web>>

FetchNotHtml(w) ==
    /\ task[w].pc = "fetch"
    /\ BackToTop(w, mark_visited(url_manager, task[w].url))
    /\ UNCHANGED <<robots_files, hashes, index, save_queue, url_map, pending_ret,
                   pages_enqueued, run, web>>

\* Lines 106-110: the page names another URL as canonical.
FetchCanonical(w) ==
    /\ task[w].pc = "fetch"
    /\ \E c \in (Urls \cup {BadUrl}) \ {task[w].url}, lucky \in Lucky :
          Continue(w, "canonical", task[w].url,
                   AddUrls(url_manager, w, <<c>>, lucky))
    /\ UNCHANGED <<robots_files, hashes, index, save_queue, url_map, pending_ret,
                   pages_enqueued, run, web>>

\* Lines 113-114: the text is extracted and add_page is handed to a pool thread.
FetchPage(w) ==
    /\ task[w].pc = "fetch"
    /\ \E text \in web :
          task' = [task EXCEPT ![w].pc = "add_page", ![w].text = text]
    /\ UNCHANGED <<url_manager, robots_files, hashes, index, save_queue, url_map,
                   writer_pc, pages_crawled, soft_limit_reached, pending_ret,
                   state_file, failed_file, simhash_file, saved_from, pages_enqueued, run, web>>

\* add_page, lines 31-37, in the pool thread: the near-duplicate query.  A
\* duplicate returns False and the worker goes on at lines 115-117.
AddPageCheck(w) ==
    /\ task[w].pc = "add_page"
    /\ IF get_near_dups(index, compute_hash(task[w].text)) # {}
       THEN BackToTop(w, mark_visited(url_manager, task[w].url))
       ELSE /\ task' = [task EXCEPT ![w].pc = "add_page_store"]
            /\ UNCHANGED <<url_manager, pages_crawled, soft_limit_reached, state_file,
                           failed_file, simhash_file, saved_from, writer_pc>>
    /\ UNCHANGED <<robots_files, hashes, index, save_queue, url_map, pending_ret,
                   pages_enqueued, run, web>>

\* add_page, lines 40-42, in the pool thread: store the fingerprint, return True.
AddPageStore(w) ==
    /\ task[w].pc = "add_page_store"
    /\ hashes' = StorePage(hashes, index, task[w].url, compute_hash(task[w].text)).hashes
    /\ index' = StorePage(hashes, index, task[w].url, compute_hash(task[w].text)).index
    /\ task' = [task EXCEPT ![w].pc = "accepted"]
    /\ UNCHANGED <<url_manager, robots_files, save_queue, url_map, writer_pc,
                   pages_crawled, soft_limit_reached, pending_ret, state_file,
                   failed_file, simhash_file, saved_from, pages_enqueued, run, web>>

\* Lines 120-126: the page is new: enqueue it for the writer, mark the URL
\* visited, hand extract_links to a pool thread.
WorkerAccept(w) ==
    /\ task[w].pc = "accepted"
    /\ save_queue' = Append(save_queue, task[w].url)
    /\ pages_enqueued' = pages_enqueued + 1
    /\ url_manager' = mark_visited(url_manager, task[w].url)
    /\ task' = [task EXCEPT ![w].pc = "extract_links", ![w].text = None]
    /\ UNCHANGED <<robots_files, hashes, index, url_map, writer_pc, pages_crawled,
                   soft_limit_reached, pending_ret, state_file, failed_file,
                   simhash_file, saved_from, run, web>>

\* Lines 126-141: the links are back; submit each, then count the page.
WorkerLinks(w) ==
    /\ task[w].pc = "extract_links"
    /\ \E links \in LinkLists, lucky \in Lucky :
          Continue(w, "links", task[w].url, AddUrls(url_manager, w, links, lucky))
    /\ UNCHANGED <<robots_files, hashes, index, save_queue, url_map, pending_ret,
                   pages_enqueued, run, web>>

(***************************************************************************)
(* The process ends (it returns from main, or it is killed) and is started *)
(* again: memory is fresh, the files stay.                                 *)
(***************************************************************************)
Restart ==
    /\ run < MaxRuns
    /\ run' = run + 1
    /\ url_manager' = NewURLManager
    /\ hashes' = [u \in Urls |-> NoHash]
    /\ index' = {}
    /\ save_queue' = <<>>
    /\ writer_pc' = "idle"
    /\ pages_crawled' = 0
    /\ soft_limit_reached' = FALSE
    /\ task' = [p \in Procs |-> Local(IF p = Main THEN "load" ELSE "idle", None, None, <<>>, None)]
    /\ pending_ret' = FALSE
    /\ pages_enqueued' = 0
    /\ UNCHANGED <<robots_files, url_map, state_file, failed_file, simhash_file, saved_from, web>>

Step(p) ==
    \/ RobotsAcquire(p)
    \/ RobotsFetched(p)
    \/ p \in Workers /\ WorkerStart(p)
    \/ p \in Workers /\ WorkerWake(p)
    \/ p \in Workers /\ FetchFailed(p)
    \/ p \in Workers /\ FetchNotHtml(p)
    \/ p \in Workers /\ FetchCanonical(p)
    \/ p \in Workers /\ FetchPage(p)
    \/ p \in Workers /\ AddPageCheck(p)
    \/ p \in Workers /\ AddPageStore(p)
    \/ p \in Workers /\ WorkerAccept(p)
    \/ p \in Workers /\ WorkerLinks(p)

MainStep ==
    \/ MainLoad
    \/ MainCheckPending
    \/ MainSeed
    \/ MainGathered
    \/ MainFinal

\* One run of the process.  (The periodic checkpoint task is left to
\* CheckpointSpec: it writes files that the process reads only when it starts.)
Next ==
    \/ MainStep
    \/ \E p \in Procs : Step(p)
    \/ DiskWriter

Spec == Init /\ [][Next]_vars

\* Runs of the process with their checkpoints: the periodic checkpoint task
\* and the restart, on a web that serves one text.
CheckpointInit == InitWith({"t0"})

CheckpointNext ==
    \/ MainStep
    \/ \E p \in Procs : Step(p)
    \/ DiskWriter
    \/ PeriodicSave
    \/ Restart

CheckpointSpec == CheckpointInit /\ [][CheckpointNext]_vars

(***************************************************************************)
(* One run under the scheduling the event loop and the thread pool give:   *)
(* every task that can take a step eventually takes one (a fetch returns   *)
(* or times out, a pool thread runs, a ready coroutine is resumed).        *)
(***************************************************************************)
Fairness ==
    /\ WF_vars(MainStep)
    /\ WF_vars(DiskWriter)
    /\ \A p \in Procs : WF_vars(Step(p))

\* The web serves two texts that are no near-duplicates of each other.
LiveInit == InitWith({"t0", "t2"})

LiveSpec == LiveInit /\ [][Next]_vars /\ Fairness

\* Runs of the process with their checkpoints, each run under the scheduling of
\* LiveSpec.  When the periodic task fires and when the process is killed and
\* started again is left open.
CheckpointLiveSpec == CheckpointInit /\ [][CheckpointNext]_vars /\ Fairness

(***************************************************************************)
(* The SimhashManager alone, called by one thread: any sequence of         *)
(* add_page calls, each run to its end before the next, from an empty      *)
(* store.                                                                  *)
(***************************************************************************)
AddPageCall ==
    /\ \E id \in Urls, text \in Texts :
          /\ hashes' = add_page(hashes, index, id, text).hashes
          /\ index' = add_page(hashes, index, id, text).index
    /\ UNCHANGED <<url_manager, robots_files, save_queue, url_map, writer_pc,
                   pages_crawled, soft_limit_reached, task, pending_ret, state_file,
                   failed_file, simhash_file, saved_from, pages_enqueued, run, web>>

DedupSpec == Init /\ [][AddPageCall]_vars

(***************************************************************************)
(* Properties.                                                             *)
(***************************************************************************)
InSets(u) ==
    Cardinality({ n \in {"queued", "being_crawled", "visited", "failed_urls"} :
                    u \in url_manager[n] })

\* C1: no URL is in two of the sets queued, being_crawled, visited and
\* failed_urls at once.
C1_StateExclusivity == \A u \in Urls : InSets(u) <= 1

\* C2: the work queue never holds two entries for one URL, and a domain's
\* count is at most the number of its URLs that were ever submitted.
C2_IdempotentSubmission ==
    /\ \A u \in Urls : Count(url_manager.global_queue, u) <= 1
    /\ \A d \in Domains :
          url_manager.domain_scrape_tracker[d] <=
              Cardinality({ u \in Urls : _get_domain(u) = d /\ InSets(u) >= 1 })

\* C3: within a run, a URL in visited stays in visited and out of queued,
\* being_crawled and failed_urls; likewise for one in failed_urls.
C3_TerminalStates ==
    [][ run' = run =>
          \A u \in Urls :
             /\ u \in url_manager.visited =>
                   /\ u \in url_manager'.visited
                   /\ u \notin url_manager'.queued
                   /\ u \notin url_manager'.being_crawled
                   /\ u \notin url_manager'.failed_urls
             /\ u \in url_manager.failed_urls =>
                   /\ u \in url_manager'.failed_urls
                   /\ u \notin url_manager'.queued
                   /\ u \notin url_manager'.being_crawled
                   /\ u \notin url_manager'.visited ]_vars

\* C4: no two stored fingerprints are within k bits of each other (of two
\* concurrent add_page calls for near-identical texts at most one stores).
C4_AtomicAdmission ==
    \A e1, e2 \in index : e1 # e2 => distance(e1[1], e2[1]) > SimhashK

Loaded == task[Main].pc = "loaded"

NoRepeats(q) == \A i, j \in DOMAIN q : i # j => q[i] # q[j]

Checked == task[Main].pc = "checked"

\* C7 as claimed: has_pending_urls() is true exactly when the work queue is
\* non-empty or a URL is in being_crawled.
C7_PendingClaimed ==
    Checked =>
      (pending_ret <=> (url_manager.global_queue # <<>> \/ url_manager.being_crawled # {}))

\* C7 as amended: has_pending_urls() is true exactly when the work queue or the
\* queued set is non-empty; URLs in being_crawled do not count.
C7_Pending ==
    Checked =>
      (pending_ret <=> (url_manager.global_queue # <<>> \/ url_manager.queued # {}))

C7_Witness ==
    /\ Checked
    /\ ~pending_ret
    /\ url_manager.being_crawled # {}

Finished == task[Main].pc = "finished"

\* The frontier is exhausted below the target: the workers run, the queue is
\* empty, no URL is in flight and no task is submitting one.
Exhausted ==
    /\ task[Main].pc = "gather"
    /\ ~soft_limit_reached
    /\ url_manager.global_queue = <<>>
    /\ url_manager.being_crawled = {}
    /\ \A w \in Workers : task[w].pc \in {"get", "done"}

\* C8: a run whose frontier is exhausted below the target finishes.
C8_TerminationOnExhaustion == Exhausted ~> Finished

\* C9: once the soft limit flag is set the run finishes.
C9_TerminationOnSoftLimit == soft_limit_reached ~> Finished

\* C10 as claimed: with no failed URL, no more than TARGET_PAGES pages are
\* enqueued to the writer in a run.
C10_ExactlyTarget ==
    url_manager.failed_urls = {} => pages_enqueued <= TARGET_PAGES

\* C10 as amended: the flag is set exactly when the counter has reached
\* TARGET_PAGES, and at least TARGET_PAGES pages were enqueued by then; the
\* number enqueued is not capped at the target: a worker that was past the test
\* of the flag still enqueues its page, so with no failed URL it can reach, and
\* never exceeds, TARGET_PAGES + NUM_WORKERS - 1, as the counter can.
C10_SoftLimitCount ==
    /\ soft_limit_reached <=> pages_crawled >= TARGET_PAGES
    /\ soft_limit_reached => pages_enqueued >= TARGET_PAGES
    /\ pages_crawled <= pages_enqueued
    /\ pages_crawled <= TARGET_PAGES + NUM_WORKERS - 1
    /\ url_manager.failed_urls = {} => pages_enqueued <= TARGET_PAGES + NUM_WORKERS - 1

C10_Witness ==
    /\ soft_limit_reached
    /\ url_manager.failed_urls = {}
    /\ pages_enqueued > TARGET_PAGES

\* C11: a URL whose fetch is answered with a status >= 300 is never marked
\* visited and no page is enqueued to the writer or written for it.
C11_FetchErrorsFail ==
    \A u \in NotFound :
       /\ u \notin url_manager.visited
       /\ u \notin SeqToSet(save_queue)
       /\ u \notin url_map

\* The cached rules of u's domain disallow u.
Denied(u) ==
    /\ url_manager.robots_txt[_get_domain(u)] = Rules
    /\ u \in Disallowed

\* C13: add_url(u) for a URL that the cached rules of its domain disallow
\* returns at once and leaves the URLManager (the four sets, the work queue,
\* the domain counts) as it was, whoever calls it.
C13_DenialLeavesNoTrace ==
    \A u \in Urls, p \in Procs, lucky \in BOOLEAN :
       Denied(u) =>
          /\ add_url(url_manager, p, u, lucky).st = "done"
          /\ add_url(url_manager, p, u, lucky).um = url_manager

\* The rules of b1's domain were fetched for add_url(b1), which they denied:
\* b1 is still not seen and was not counted.
C13_Witness ==
    /\ Denied("b1")
    /\ InSets("b1") = 0
    /\ url_manager.domain_scrape_tracker["b"] = 0
    /\ \E w \in Workers : task[w].pc \in {"get", "fetch", "done"}

\* C16: no URL is handed to the writer twice in a run (in save_queue twice, or
\* in save_queue again once written), and when the run has finished every
\* page enqueued has been written.
C16_WrittenOnce ==
    /\ \A u \in Urls :
          Count(save_queue, u) + (IF u \in url_map THEN 1 ELSE 0) <= 1
    /\ Finished => save_queue = <<>>

\* C17: mark_visited(u) twice gives what mark_visited(u) once gives: u is in
\* visited and not in being_crawled, queued and failed_urls are as before,
\* and the other URLs are where they were.
C17_MarkVisitedIdempotent ==
    \A u \in Urls :
       LET once == mark_visited(url_manager, u)
           twice == mark_visited(once, u)
       IN /\ twice = once
          /\ u \in once.visited
          /\ u \notin once.being_crawled
          /\ once.visited \ {u} = url_manager.visited \ {u}
          /\ once.being_crawled \ {u} = url_manager.being_crawled \ {u}
          /\ once.queued = url_manager.queued
          /\ once.failed_urls = url_manager.failed_urls

\* A frontier where the first call moves a URL and the other sets are not empty.
C17_Witness ==
    /\ url_manager.being_crawled # {}
    /\ url_manager.visited # {}
    /\ url_manager.queued # {}

\* Task p holds robots_lock with its request for domain d in flight.
Fetching(p, d) ==
    /\ task[p].pc = "robots_fetch"
    /\ _get_domain(Head(task[p].todo)) = d

\* C19: while the request for the rules of one domain is in flight, add_url
\* for a new URL of another domain whose rules are not cached starts its own
\* request instead of waiting.
C19_UnrelatedDomainsNotBlocked ==
    \A p, q \in Procs, u \in Urls :
       ( /\ p # q
         /\ Fetching(p, _get_domain(Head(task[p].todo)))
         /\ _get_domain(u) # _get_domain(Head(task[p].todo))
         /\ url_manager.robots_txt[_get_domain(u)] = Absent
         /\ ~AlreadyKnown(url_manager, u) )
       => add_url(url_manager, q, u, FALSE).st = "robots_fetch"

\* In the record t of the tasks, p has its request for the rules of d in flight.
Requesting(t, p, d) ==
    /\ t[p].pc = "robots_fetch"
    /\ _get_domain(Head(t[p].todo)) = d

\* C12: at most one request for rules is in flight at a time, and its task
\* holds robots_lock; a request for a domain is issued only while the domain
\* has no cached entry, it ends with the entry cached, and a cached entry is
\* never replaced in the run: so at most one request per domain and run.
C12_SingleRuleFetch ==
    /\ [](\A p, q \in Procs :
            task[p].pc = "robots_fetch" /\ task[q].pc = "robots_fetch" => p = q)
    /\ [](\A p \in Procs :
            task[p].pc = "robots_fetch" =>
               /\ url_manager.robots_lock = p
               /\ url_manager.robots_txt[_get_domain(Head(task[p].todo))] = Absent)
    /\ [][ \A p \in Procs, d \in Domains :
             /\ (Requesting(task', p, d) /\ task[p].pc # "robots_fetch")
                   => url_manager.robots_txt[d] = Absent
             /\ (Requesting(task, p, d) /\ task'[p] # task[p])
                   => url_manager'.robots_txt[d] # Absent
             /\ (url_manager.robots_txt[d] # Absent /\ run' = run)
                   => url_manager'.robots_txt[d] = url_manager.robots_txt[d] ]_vars

\* A second requester waits for the request of the first for the same domain.
C12_Witness ==
    \E p, q \in Procs :
       /\ p # q
       /\ Requesting(task, p, "b")
       /\ task[q].pc = "robots_wait"
       /\ _get_domain(Head(task[q].todo)) = "b"

\* Some stored fingerprint is within k bits of h.
NearStored(idx, h) == \E e \in idx : distance(e[1], h) <= SimhashK

\* C14: add_page(id, text) returns False and stores nothing exactly when a
\* stored fingerprint is within k bits of the fingerprint of text; otherwise
\* it returns True, with the fingerprint stored under id and nothing else
\* changed.  From an empty store, the second of two calls returns True
\* exactly when the two fingerprints are more than k bits apart.
C14_DedupCorrect ==
    /\ \A id \in Urls, text \in Texts :
          LET r == add_page(hashes, index, id, text)
              h == compute_hash(text)
          IN /\ r.ret <=> ~NearStored(index, h)
             /\ ~r.ret => r.hashes = hashes /\ r.index = index
             /\ r.ret => /\ r.hashes[id] = h
                         /\ \A o \in Urls \ {id} : r.hashes[o] = hashes[o]
                         /\ r.index = index \cup {<<h, id>>}
    /\ \A x, y \in Texts :
          LET r1 == add_page([u \in Urls |-> NoHash], {}, "a1", x)
              r2 == add_page(r1.hashes, r1.index, "a2", y)
          IN /\ r1.ret
             /\ r2.ret <=> distance(compute_hash(x), compute_hash(y)) > SimhashK

\* Two fingerprints are stored; one text would be rejected, another admitted.
C14_Witness ==
    /\ Cardinality(index) >= 2
    /\ \E text \in Texts : ~add_page(hashes, index, "b1", text).ret
    /\ \E text \in Texts : add_page(hashes, index, "b1", text).ret

\* C15: the sentinel is put only when every worker has returned; the writer
\* ends with its queue empty; the final checkpoint is written only when the
\* writer has ended; in the finished state the files hold the frontier and the
\* fingerprints as they are in memory, and no checkpoint is written after
\* that in the run (the periodic task is cancelled before the final one).
C15_ShutdownOrdering ==
    /\ [](Finished =>
            /\ \A w \in Workers : task[w].pc = "done"
            /\ writer_pc = "done"
            /\ save_queue = <<>>
            /\ saved_from = FrontierSets(url_manager)
            /\ state_file = SavedState(url_manager)
            /\ failed_file = SavedFailed(url_manager)
            /\ simhash_file = SavedHashes(hashes))
    /\ [][ /\ ((None \in SeqToSet(save_queue') /\ None \notin SeqToSet(save_queue))
                 => (\A w \in Workers : task[w].pc = "done"))
          /\ ((writer_pc' = "done" /\ writer_pc # "done") => (save_queue' = <<>>))
          /\ ((Finished' /\ ~Finished) => (writer_pc = "done" /\ save_queue = <<>>))
          /\ ((Finished /\ run' = run)
                 => (UNCHANGED <<state_file, failed_file, simhash_file, saved_from>>)) ]_vars

\* A run has reached its target and finished after its writer wrote a page.
C15_Witness ==
    /\ Finished
    /\ url_map # {}
    /\ pages_enqueued >= TARGET_PAGES

\* Worker w has taken u from get_url and has not yet resolved it.
Holding(w, u) ==
    /\ task[w].url = u
    /\ task[w].pc \notin {"idle", "start", "get", "done"}

\* C18: a URL that a worker has taken is eventually resolved by that worker:
\* the worker is done with it, the URL is in visited or failed_urls and it is
\* out of being_crawled.
C18_TakenIsResolved ==
    \A w \in Workers, u \in Urls :
       Holding(w, u) ~>
          ( /\ ~Holding(w, u)
            /\ u \in url_manager.visited \cup url_manager.failed_urls
            /\ u \notin url_manager.being_crawled )

\* URLs were resolved on both sides, and nothing is in flight any more.
C18_Witness ==
    /\ url_manager.failed_urls # {}
    /\ url_manager.visited # {}
    /\ url_manager.being_crawled = {}
    /\ \A w \in Workers, u \in Urls : ~Holding(w, u)

\* No worker is in the middle of processing a URL.
Quiet == \A w \in Workers : task[w].pc \in {"idle", "start", "get", "done"}

\* C20: whenever no worker is processing a URL, pages_crawled is the number of
\* pages enqueued to the writer in this run.
C20_CounterMatchesAccepted == Quiet => pages_crawled = pages_enqueued

\* C21: hashes holds exactly the pairs the index answers from, and no page id
\* has two fingerprints in the index (a stored pair is never replaced).
C21_StoreInvariant ==
    /\ index = IndexOf(hashes)
    /\ \A e1, e2 \in index : e1[2] = e2[2] => e1 = e2

\* C22: a URL that load_state restores into being_crawled in a later run is
\* eventually visited or failed in that run.
C22_InFlightSurvive ==
    \A u \in Urls :
       (run > 1 /\ Loaded /\ u \in url_manager.being_crawled)
          ~> (u \in url_manager.visited \cup url_manager.failed_urls)

====
